---- MODULE Spec2Model ----
(***************************************************************************)
(* Model of components/ErrorBoundary.tsx (class ErrorBoundary) and of the  *)
(* React calling contract it is written against.                            *)
(*                                                                          *)
(* The component's state is this.state.hasError.  React drives it:          *)
(*   - render() is called in the render phase; when it returns              *)
(*     this.props.children the descendants are rendered next;               *)
(*   - when a descendant throws while rendering, React calls the static     *)
(*     getDerivedStateFromError() (still in the render phase), applies the  *)
(*     state it returns and calls render() again;                           *)
(*   - after that render is committed React calls                           *)
(*     componentDidCatch(error, errorInfo) (commit phase);                  *)
(*   - an exception thrown by the boundary itself (for instance out of      *)
(*     componentDidCatch) is not handled by that boundary: it goes to the   *)
(*     ancestors, and pages/_app.tsx has no boundary above this one, so     *)
(*     the tree is unmounted;                                               *)
(*   - the button of the fallback view calls handleRetry;                   *)
(*   - an error thrown outside the render of a descendant (an event         *)
(*     handler, an asynchronous callback) is never handed to the boundary;  *)
(*   - a boundary receives the render errors of the components below it     *)
(*     only: pages/_app.tsx puts ApolloProvider above the boundary and the  *)
(*     page below it.                                                       *)
(***************************************************************************)
EXTENDS Naturals, Sequences, FiniteSets

\* ---------------------------------------------------------------- bounds

\* At most this many descendant errors are raised in one behaviour.
MaxErrors == 3

\* ---------------------------------------------------------------- values

NoError == "noError"

\* The error values a descendant may throw (Error("x"), Error("y")).
Errors == {"x", "y"}

\* React.ErrorInfo values handed to componentDidCatch (component stacks).
ErrorInfos == {"stackA", "stackB"}

Null == "null"

\* What Sentry.captureException may do when it is called.
Outcomes == {"ok", "throws", "rejects"}

\* Where an error that is not a descendant's render error may be thrown.
NonRenderKinds == {"eventHandler", "asyncCallback"}

\* Variant: the boundary is the outermost element and the provider is inside it.
App_ProviderInsideBoundary == <<"ErrorBoundary", "ApolloProvider", "Component">>

\* The element App returns, outermost first:
\* <ApolloProvider><ErrorBoundary><Component {...pageProps} /></ErrorBoundary></ApolloProvider>
App == <<"ApolloProvider", "ErrorBoundary", "Component">>

\* The depth of an element of the tree.
IndexOf(tree, name) == CHOOSE i \in 1..Len(tree) : tree[i] = name

\* outer wraps inner in the tree.
Encloses(tree, outer, inner) == IndexOf(tree, outer) < IndexOf(tree, inner)

\* The JSX returned by render() when this.state.hasError is true.
Fallback ==
    [kind    |-> "fallback",
     heading |-> "Oops! Something went wrong.",
     message |-> "Our team has been notified.",
     button  |-> "Try again?",
     onClick |-> "handleRetry"]

\* this.props.children, as pages/_app.tsx passes it: <Component {...pageProps} />.
Children ==
    [kind    |-> "children",
     heading |-> "",
     message |-> "",
     button  |-> "",
     onClick |-> ""]

\* Nothing rendered yet.
NoView ==
    [kind    |-> "none",
     heading |-> "",
     message |-> "",
     button  |-> "",
     onClick |-> ""]

VARIABLES
    hasError,     \* this.state.hasError
    view,         \* what the last call of render() returned
    pc,           \* where React is with this boundary
    cause,        \* the error the descendant subtree currently throws on render, or NoError
    curErr,       \* the descendant error being intercepted, or NoError
    curInfo,      \* the ErrorInfo React built for curErr, or Null
    log,          \* console.log entries of the boundary
    reports,      \* calls of Sentry.captureException made by the boundary
    escaped,      \* TRUE once an exception has left the boundary towards its ancestors
    outcomes,     \* history: what each call of Sentry.captureException did
    intercepted,  \* history: the descendant errors (and ErrorInfo) React handed to the boundary
    steps,        \* history: the effects of the interception in progress, in order
    raisedSince,  \* history: a descendant render raised an error since mount / last retry
    outside,      \* history: the kinds of errors thrown outside the render of a descendant
    providerFailed \* TRUE once ApolloProvider has failed while the application started

vars == <<hasError, view, pc, cause, curErr, curInfo, log, reports, escaped,
          outcomes, intercepted, steps, raisedSince, outside, providerFailed>>

\* What App adds around the boundary: neither is a field of the boundary.
shell == <<outside, providerFailed>>

\* ------------------------------------------------------ the component

\* Variant: the boundary is constructed with the flag up.
constructor_Faulted == [hasError |-> TRUE]

\* constructor: this.state = { hasError: false }
constructor == [hasError |-> FALSE]

\* Variant: the derived state leaves the flag down.
getDerivedStateFromError_FlagDown == [hasError |-> FALSE]

\* static getDerivedStateFromError(): State
getDerivedStateFromError == [hasError |-> TRUE]

\* Variant: the retry flips the flag.
handleRetry_Toggle(state) == [state EXCEPT !.hasError = ~state.hasError]

\* Variant: the retry leaves the state as it is.
handleRetry_Keep(state) == state

\* The state handleRetry passes to setState, merged into the current state.
handleRetry(state) == [state EXCEPT !.hasError = FALSE]

\* Variant: the retry control is rendered with the children as well.
render_RetryControlAlways(state) ==
    IF state.hasError THEN Fallback ELSE [Children EXCEPT !.onClick = "handleRetry"]

\* Variant: render() returns the fallback whatever the state.
render_AlwaysFallback(state) == Fallback

\* Variant: render() passes the children through whatever the state.
render_AlwaysChildren(state) == Children

\* render(): the fallback when this.state.hasError, else this.props.children.
render(state) == IF state.hasError THEN Fallback ELSE Children

\* The console.log entry of componentDidCatch: { error, errorInfo }.
logEntry(error, errorInfo) == [error |-> error, errorInfo |-> errorInfo]

\* Variant: the report carries no render-phase context.
captureException_NoContext(error, errorInfo) ==
    [error |-> error, context |-> [extra |-> Null]]

\* The arguments of Sentry.captureException(error, { extra: errorInfo }).
captureException(error, errorInfo) ==
    [error |-> error, context |-> [extra |-> errorInfo]]

\* ---------------------------------------------------------------- Init

Init ==
    /\ hasError = constructor.hasError
    /\ view = NoView
    /\ pc = "render"
    /\ cause \in Errors \cup {NoError}
    /\ curErr = NoError
    /\ curInfo = Null
    /\ log = <<>>
    /\ reports = <<>>
    /\ escaped = FALSE
    /\ outcomes = <<>>
    /\ intercepted = <<>>
    /\ steps = <<>>
    /\ raisedSince = FALSE
    /\ outside = {}
    /\ providerFailed = FALSE

\* ------------------------------------------------------------- actions

\* React calls render().  Children are rendered next; a fallback is committed,
\* and componentDidCatch follows when the render was caused by a caught error.
\* React does not get to the boundary when the provider above it has failed.
Render ==
    /\ pc = "render"
    /\ ~providerFailed
    /\ UNCHANGED shell
    /\ view' = render([hasError |-> hasError])
    /\ pc' = IF view'.kind = "children" THEN "descend"
             ELSE IF curErr # NoError THEN "didCatch"
             ELSE "idle"
    /\ UNCHANGED <<hasError, cause, curErr, curInfo, log, reports, escaped,
                   outcomes, intercepted, steps, raisedSince>>

\* The descendants (the page component) render without throwing.
DescendantRenders ==
    /\ pc = "descend"
    /\ UNCHANGED shell
    /\ cause = NoError
    /\ pc' = "idle"
    /\ UNCHANGED <<hasError, view, cause, curErr, curInfo, log, reports, escaped,
                   outcomes, intercepted, steps, raisedSince>>

\* A descendant throws while rendering; React builds the ErrorInfo and hands
\* the error to the boundary, which App puts around the page.  (A page that
\* were not inside the boundary would take the tree down.)
DescendantThrows(info) ==
    /\ pc = "descend"
    /\ cause # NoError
    /\ Len(intercepted) < MaxErrors
    /\ raisedSince' = TRUE
    /\ IF Encloses(App, "ErrorBoundary", "Component")
          THEN /\ curErr' = cause
               /\ curInfo' = info
               /\ steps' = <<>>
               /\ pc' = "thrown"
          ELSE /\ pc' = "unmounted"
               /\ UNCHANGED <<curErr, curInfo, steps>>
    /\ UNCHANGED <<hasError, view, cause, log, reports, escaped, outcomes, intercepted>>
    /\ UNCHANGED shell

\* React calls getDerivedStateFromError, applies its result and re-renders.
GetDerivedStateFromError ==
    /\ pc = "thrown"
    /\ UNCHANGED shell
    /\ hasError' = getDerivedStateFromError.hasError
    /\ intercepted' = Append(intercepted, [error |-> curErr, errorInfo |-> curInfo])
    /\ steps' = IF hasError' /\ ~hasError THEN Append(steps, "hasError") ELSE steps
    /\ pc' = "render"
    /\ UNCHANGED <<view, cause, curErr, curInfo, log, reports, escaped, outcomes,
                   raisedSince>>

\* Variant: the report is sent before the log entry is written.
ComponentDidCatch_ReportFirst(outcome) ==
    /\ pc = "didCatch"
    /\ UNCHANGED shell
    /\ log' = Append(log, logEntry(curErr, curInfo))
    /\ reports' = Append(reports, captureException(curErr, curInfo))
    /\ steps' = steps \o <<"report", "log">>
    /\ outcomes' = Append(outcomes, outcome)
    /\ escaped' = (escaped \/ outcome = "throws")
    /\ pc' = IF outcome = "throws" THEN "unmounted" ELSE "idle"
    /\ curErr' = NoError
    /\ curInfo' = Null
    /\ UNCHANGED <<hasError, view, cause, intercepted, raisedSince>>

\* Variant: a failed report puts the boundary back to healthy.
ComponentDidCatch_ResetsOnFailure(outcome) ==
    /\ pc = "didCatch"
    /\ UNCHANGED shell
    /\ log' = Append(log, logEntry(curErr, curInfo))
    /\ reports' = Append(reports, captureException(curErr, curInfo))
    /\ steps' = steps \o <<"log", "report">>
    /\ outcomes' = Append(outcomes, outcome)
    /\ escaped' = (escaped \/ outcome = "throws")
    /\ pc' = IF outcome = "throws" THEN "unmounted" ELSE "idle"
    /\ curErr' = NoError
    /\ curInfo' = Null
    /\ hasError' = (hasError /\ outcome = "ok")
    /\ UNCHANGED <<view, cause, intercepted, raisedSince>>

\* Variant: only the first error of the boundary is reported.
ComponentDidCatch_ReportsOnce(outcome) ==
    /\ pc = "didCatch"
    /\ UNCHANGED shell
    /\ log' = Append(log, logEntry(curErr, curInfo))
    /\ reports' = IF reports = <<>>
                   THEN Append(reports, captureException(curErr, curInfo))
                   ELSE reports
    /\ steps' = steps \o <<"log", "report">>
    /\ outcomes' = Append(outcomes, outcome)
    /\ escaped' = (escaped \/ outcome = "throws")
    /\ pc' = IF outcome = "throws" THEN "unmounted" ELSE "idle"
    /\ curErr' = NoError
    /\ curInfo' = Null
    /\ UNCHANGED <<hasError, view, cause, intercepted, raisedSince>>

\* componentDidCatch(error, errorInfo): console.log, then Sentry.captureException.
\* Nothing catches an exception of captureException, so it leaves the method.
ComponentDidCatch(outcome) ==
    /\ pc = "didCatch"
    /\ UNCHANGED shell
    /\ log' = Append(log, logEntry(curErr, curInfo))
    /\ reports' = Append(reports, captureException(curErr, curInfo))
    /\ steps' = steps \o <<"log", "report">>
    /\ outcomes' = Append(outcomes, outcome)
    /\ escaped' = (escaped \/ outcome = "throws")
    /\ pc' = IF outcome = "throws" THEN "unmounted" ELSE "idle"
    /\ curErr' = NoError
    /\ curInfo' = Null
    /\ UNCHANGED <<hasError, view, cause, intercepted, raisedSince>>

\* Variant: the retry also resets the subtree, so that it renders again.
HandleRetry_ResetsSubtree ==
    /\ pc = "idle"
    /\ UNCHANGED shell
    /\ view.onClick = "handleRetry"
    /\ hasError' = handleRetry([hasError |-> hasError]).hasError
    /\ raisedSince' = FALSE
    /\ cause' = NoError
    /\ pc' = "render"
    /\ UNCHANGED <<view, curErr, curInfo, log, reports, escaped,
                   outcomes, intercepted, steps>>

\* handleRetry, the onClick of the fallback view's button: setState({ hasError: false }).
HandleRetry ==
    /\ pc = "idle"
    /\ UNCHANGED shell
    /\ view.onClick = "handleRetry"
    /\ hasError' = handleRetry([hasError |-> hasError]).hasError
    /\ raisedSince' = FALSE
    /\ pc' = "render"
    /\ UNCHANGED <<view, cause, curErr, curInfo, log, reports, escaped,
                   outcomes, intercepted, steps>>

\* The descendant subtree's own state changes (data arrives, a query fails):
\* what it throws on render changes, and a mounted subtree renders again.
SubtreeChange(c) ==
    /\ pc = "idle"
    /\ UNCHANGED shell
    /\ c # cause
    /\ cause' = c
    /\ pc' = IF view.kind = "children" THEN "descend" ELSE pc
    /\ UNCHANGED <<hasError, view, curErr, curInfo, log, reports, escaped,
                   outcomes, intercepted, steps, raisedSince>>

\* App renders again (new Component / pageProps), so the boundary renders again.
ParentRerender ==
    /\ pc = "idle"
    /\ UNCHANGED shell
    /\ pc' = "render"
    /\ UNCHANGED <<hasError, view, cause, curErr, curInfo, log, reports, escaped,
                   outcomes, intercepted, steps, raisedSince>>

\* Variant: an error thrown outside render is handed to the boundary as well.
NonRenderError_Intercepted(kind) ==
    /\ pc = "idle"
    /\ view.kind = "children"
    /\ kind \notin outside
    /\ Len(intercepted) < MaxErrors
    /\ outside' = outside \cup {kind}
    /\ curErr' = "x"
    /\ curInfo' = "stackA"
    /\ steps' = <<>>
    /\ raisedSince' = TRUE
    /\ pc' = "thrown"
    /\ UNCHANGED <<hasError, view, cause, log, reports, escaped,
                   outcomes, intercepted, providerFailed>>

\* An event handler or an asynchronous callback of the mounted page throws.
\* The boundary defines getDerivedStateFromError and componentDidCatch only, and
\* React calls neither for such an error: it goes to the hosting framework.
NonRenderError(kind) ==
    /\ pc = "idle"
    /\ view.kind = "children"
    /\ kind \notin outside
    /\ outside' = outside \cup {kind}
    /\ UNCHANGED <<hasError, view, pc, cause, curErr, curInfo, log, reports, escaped,
                   outcomes, intercepted, steps, raisedSince, providerFailed>>

\* ApolloProvider fails while App renders for the first time.  It is above the
\* boundary, so the boundary is never handed the error and never rendered.
\* (A provider that were inside the boundary would have its error intercepted.)
ProviderFails(e, info) ==
    /\ pc = "render"
    /\ view = NoView
    /\ ~providerFailed
    /\ providerFailed' = TRUE
    /\ IF Encloses(App, "ErrorBoundary", "ApolloProvider")
          THEN /\ curErr' = e
               /\ curInfo' = info
               /\ raisedSince' = TRUE
               /\ pc' = "thrown"
          ELSE UNCHANGED <<pc, curErr, curInfo, raisedSince>>
    /\ UNCHANGED <<hasError, view, cause, log, reports, escaped, outcomes,
                   intercepted, steps, outside>>

Next ==
    \/ Render
    \/ DescendantRenders
    \/ \E info \in ErrorInfos : DescendantThrows(info)
    \/ GetDerivedStateFromError
    \/ \E outcome \in Outcomes : ComponentDidCatch(outcome)
    \/ HandleRetry
    \/ \E c \in Errors \cup {NoError} : SubtreeChange(c)
    \/ ParentRerender
    \/ \E kind \in NonRenderKinds : NonRenderError(kind)
    \/ \E e \in Errors, info \in ErrorInfos : ProviderFails(e, info)

Spec == Init /\ [][Next]_vars

TypeOK ==
    /\ hasError \in BOOLEAN
    /\ view \in {NoView, Children, Fallback}
    /\ pc \in {"render", "descend", "thrown", "didCatch", "idle", "unmounted"}
    /\ cause \in Errors \cup {NoError}
    /\ curErr \in Errors \cup {NoError}
    /\ curInfo \in ErrorInfos \cup {Null}
    /\ escaped \in BOOLEAN
    /\ Len(outcomes) = Len(reports)
    /\ raisedSince \in BOOLEAN
    /\ Len(intercepted) <= MaxErrors
    /\ Len(log) <= MaxErrors
    /\ Len(reports) <= MaxErrors
    /\ outside \subseteq NonRenderKinds
    /\ providerFailed \in BOOLEAN

\* ------------------------------------------------------------- claims

\* The re-render that follows getDerivedStateFromError has not run yet.
RerenderPending == pc = "render" /\ curErr # NoError

\* An interception is in progress: getDerivedStateFromError has been called
\* for the error in flight and componentDidCatch has not returned yet.
Intercepting == curErr # NoError /\ pc \in {"render", "didCatch"}

\* C1: once a descendant's render error has been intercepted (React has called
\* getDerivedStateFromError for it), hasError is true, and as soon as the
\* boundary has rendered again its output is the fallback view, not children.
C1_InterceptedMeansFallback ==
    (raisedSince /\ pc # "thrown") =>
        /\ hasError
        /\ (~RerenderPending => view = Fallback /\ view # Children)

C1_Witness ==
    /\ pc = "idle"
    /\ raisedSince
    /\ Len(intercepted) >= 1
    /\ hasError
    /\ view = Fallback

\* C2: the Intercept operation never throws: no exception of the reporter
\* leaves componentDidCatch towards the ancestors of the boundary.
C2_InterceptNeverThrows ==
    \A i \in 1..Len(outcomes) : outcomes[i] = "throws" => ~escaped

\* C3: when the reporter throws or rejects during an interception, the boundary
\* still ends Faulted, mounted and showing the fallback.
C3_ReporterFailureStillFaulted ==
    (/\ Len(outcomes) >= 1
     /\ Len(outcomes) = Len(intercepted)
     /\ outcomes[Len(outcomes)] \in {"throws", "rejects"}
     /\ raisedSince
     /\ pc \notin {"thrown", "render"}) =>
        /\ hasError
        /\ view = Fallback
        /\ pc # "unmounted"

\* C4: the reporter is called exactly once per intercepted error, with that
\* error and a context that is not null and carries the render-phase info:
\* one call per finished interception, none yet for the one in progress.
C4_OneReportPerInterception ==
    /\ Len(reports) + (IF Intercepting THEN 1 ELSE 0) = Len(intercepted)
    /\ \A i \in 1..Len(reports) :
        /\ reports[i].error = intercepted[i].error
        /\ reports[i].error \in Errors
        /\ DOMAIN reports[i].context = {"extra"}
        /\ reports[i].context.extra # Null
        /\ reports[i].context.extra = intercepted[i].errorInfo

C4_Witness ==
    /\ Len(intercepted) = 2
    /\ Len(reports) = 2
    /\ reports[1].error # reports[2].error
    /\ pc = "idle"

\* s is an initial part of t.
IsPrefix(s, t) == Len(s) <= Len(t) /\ \A i \in 1..Len(s) : s[i] = t[i]

\* C5 as stated: within one interception the log entry comes first, the report
\* second and the transition of hasError to true last, so hasError is not yet
\* true while the log entry and the report of that error are outstanding.
C5_LogReportThenState ==
    /\ IsPrefix(steps, <<"log", "report", "hasError">>)
    /\ (hasError /\ raisedSince) =>
           Len(log) = Len(intercepted) /\ Len(reports) = Len(intercepted)

\* C5 (amended): within one interception hasError becomes true first
\* (getDerivedStateFromError, render phase), then the log entry is emitted, then
\* the reporter is called (componentDidCatch, commit phase); a log entry or a
\* report of an error is never issued while hasError is still false.
C5_StateThenLogReport ==
    /\ IsPrefix(steps, <<"hasError", "log", "report">>)
    /\ (Len(intercepted) >= 1 /\ ~Intercepting /\ pc # "thrown") =>
           steps = <<"hasError", "log", "report">>
    /\ Len(log) = Len(reports)
    /\ (Len(log) >= 1 /\ Len(log) = Len(intercepted) /\ raisedSince /\ pc # "thrown") =>
           hasError

C5_Witness ==
    /\ steps = <<"hasError">>
    /\ hasError
    /\ pc = "didCatch"
    /\ Len(log) = 0
    /\ Len(reports) = 0

\* C6: a retry while hasError is true sets hasError to false and schedules a
\* render; that render returns children, which are rendered next; when they
\* render without throwing, the output is the children and hasError is false.
C6_RetryRendersChildren ==
    /\ [](Len(intercepted) >= 1 /\ ~raisedSince =>
             /\ ~hasError
             /\ pc \in {"render", "descend", "idle"}
             /\ (pc # "render" => view = Children))
    /\ [][/\ HandleRetry => (hasError /\ ~hasError' /\ pc' = "render")
          /\ (Render /\ ~hasError) => (view' = Children /\ pc' = "descend")
          /\ DescendantRenders => (~hasError' /\ view' = Children /\ pc' = "idle")]_vars

C6_Witness ==
    /\ Len(intercepted) >= 1
    /\ ~raisedSince
    /\ pc = "idle"
    /\ cause = NoError
    /\ ~hasError
    /\ view = Children

\* C7: hasError is true if and only if a descendant render raised an error
\* since the mount or since the last retry; the one position left out is React
\* unwinding from the throw, before it has handed the error to the boundary.
C7_HasErrorIffRaisedSince ==
    pc # "thrown" => (hasError <=> raisedSince)

C7_Witness ==
    /\ Len(intercepted) = 2
    /\ pc = "idle"
    /\ hasError
    /\ raisedSince

\* C8: the boundary starts Healthy; a step that changes hasError is either
\* Healthy -> Faulted by getDerivedStateFromError for a descendant error in
\* flight, or Faulted -> Healthy by handleRetry; render, componentDidCatch
\* (whatever the reporter does) and everything else leave hasError alone.
C8_OnlyInterceptAndRetryChangeState ==
    /\ hasError = FALSE
    /\ [][hasError' # hasError =>
            \/ (~hasError /\ hasError' /\ curErr # NoError /\ GetDerivedStateFromError)
            \/ (hasError /\ ~hasError' /\ HandleRetry)]_vars

C8_Witness ==
    /\ Len(intercepted) = 2
    /\ Len(outcomes) = 2
    /\ outcomes[2] = "rejects"
    /\ hasError
    /\ pc = "idle"

\* C9: every retry followed by a render in which the child throws again
\* re-enters Faulted and produces one further report: whenever no interception
\* is under way, as many reports have been made as errors were intercepted.
C9_ReportsEqualInterceptions ==
    (pc \in {"idle", "descend", "unmounted"}) =>
        /\ Len(reports) = Len(intercepted)
        /\ Len(log) = Len(intercepted)
        /\ (raisedSince => hasError /\ view = Fallback)

C9_Witness ==
    /\ Len(intercepted) >= 2
    /\ Len(reports) = Len(intercepted)
    /\ intercepted[1].error = intercepted[2].error
    /\ hasError
    /\ view = Fallback
    /\ pc = "idle"

\* C10: render is a function of the state alone: whenever no render is
\* pending, the view is the one fixed fallback exactly when hasError is true and
\* the children exactly when it is false; a render step yields nothing else.
C10_ViewIsFunctionOfState ==
    /\ [](pc # "render" =>
            /\ (hasError <=> view = Fallback)
            /\ (~hasError <=> view = Children))
    /\ [][Render => view' = IF hasError THEN Fallback ELSE Children]_vars

C10_Witness ==
    /\ Len(intercepted) = 2
    /\ intercepted[1] # intercepted[2]
    /\ pc = "didCatch"
    /\ hasError
    /\ view = Fallback

\* C11: as long as no descendant has thrown during render, whatever the
\* number of renders, the boundary is Healthy, its output is never the fallback
\* and is the children once it has rendered, and neither the log nor the
\* reporter has been used.
C11_HealthyWithoutErrors ==
    (intercepted = <<>> /\ ~raisedSince) =>
        /\ ~hasError
        /\ view # Fallback
        /\ (pc \in {"descend", "idle"} => view = Children)
        /\ pc \in {"render", "descend", "idle"}
        /\ log = <<>>
        /\ reports = <<>>
        /\ outcomes = <<>>

C11_Witness ==
    /\ intercepted = <<>>
    /\ ~raisedSince
    /\ pc = "idle"
    /\ cause = NoError
    /\ outside = NonRenderKinds
    /\ ~hasError
    /\ view = Children
    /\ reports = <<>>

\* C12: after an interception the ancestors of the boundary observe no error
\* and stay rendered: no exception leaves the boundary and the tree is not
\* unmounted.
C12_NothingPropagatesUp ==
    Len(intercepted) >= 1 => (~escaped /\ pc # "unmounted")

\* C13: a retry changes hasError and nothing else of the boundary or of the
\* subtree; the error a descendant raises is the one its subtree currently
\* causes, so when the cause of the last failure persists after a retry the
\* next render of the children raises that same error, never renders them, and
\* the boundary does not settle Healthy while a cause persists.
C13_RetryKeepsSubtree ==
    /\ []((pc = "idle" /\ cause # NoError) => (hasError /\ view = Fallback))
    /\ []((pc = "thrown" \/ Intercepting) => curErr = cause)
    /\ [][(hasError /\ ~hasError') =>
            /\ pc' = "render"
            /\ UNCHANGED <<cause, view, curErr, curInfo, log, reports, escaped,
                           outcomes, intercepted, steps, outside, providerFailed>>]_vars
    /\ [][(/\ pc = "descend"
           /\ ~raisedSince
           /\ Len(intercepted) >= 1
           /\ cause = intercepted[Len(intercepted)].error) =>
            (pc' = "thrown" /\ curErr' = intercepted[Len(intercepted)].error)]_vars

C13_Witness ==
    /\ Len(intercepted) = 2
    /\ intercepted[1].error = intercepted[2].error
    /\ cause = intercepted[2].error
    /\ curErr = cause
    /\ pc = "didCatch"
    /\ hasError
    /\ view = Fallback

\* C14: an error thrown outside the render of a descendant (event handler,
\* asynchronous callback) goes to the hosting framework and is not intercepted:
\* the step leaves hasError, the view, the log and the reports as they are and
\* starts no interception, and log entries and reports exist for intercepted
\* render errors only.
C14_NonRenderErrorsNotIntercepted ==
    /\ [](Len(log) <= Len(intercepted) /\ Len(reports) <= Len(intercepted))
    /\ []((outside # {} /\ intercepted = <<>> /\ ~raisedSince) =>
             (~hasError /\ curErr = NoError /\ pc \in {"render", "descend", "idle"}))
    /\ [][outside' # outside =>
            UNCHANGED <<hasError, view, pc, cause, curErr, curInfo, log, reports,
                        escaped, outcomes, intercepted, steps, raisedSince>>]_vars

C14_Witness ==
    /\ outside = NonRenderKinds
    /\ Len(intercepted) = 1
    /\ Len(log) = 1
    /\ Len(reports) = 1
    /\ ~hasError
    /\ pc = "idle"

\* C15: the boundary has no terminal state: in every reachable state in which
\* the boundary has been rendered some step remains possible (the bound on the
\* number of errors aside), a retry in Faulted in particular.
C15_NoTerminalState ==
    /\ (~providerFailed /\ Len(intercepted) < MaxErrors) => ENABLED Next
    /\ (~providerFailed /\ hasError /\ curErr = NoError /\ pc # "render") =>
           ENABLED HandleRetry

\* C16: a retry step starts from the committed fallback view, whose button is
\* the only caller of handleRetry, and that button is in the output only while
\* hasError is true (or, right after the retry, until the pending render has
\* run): no retry happens while the boundary is Healthy.
C16_RetryOnlyFromFallback ==
    /\ [](view.onClick = "handleRetry" => (view = Fallback /\ (hasError \/ pc = "render")))
    /\ [][HandleRetry => (hasError /\ view = Fallback /\ pc = "idle")]_vars
    /\ [][(raisedSince /\ ~raisedSince') => (hasError /\ view.button = "Try again?")]_vars

C16_Witness ==
    /\ Len(intercepted) >= 1
    /\ ~raisedSince
    /\ pc = "render"
    /\ view = Fallback
    /\ ~hasError

\* C17: App nests provider around boundary around page.  A render error of the
\* page is handed to the boundary (the tree goes down only when an exception
\* leaves the boundary itself), and a failure of the provider is not: the
\* boundary is then never rendered, never Faulted, and logs and reports nothing.
C17_ShellComposition ==
    /\ Encloses(App, "ApolloProvider", "ErrorBoundary")
    /\ Encloses(App, "ErrorBoundary", "Component")
    /\ Len(App) = 3
    /\ (pc = "thrown" => curErr = cause)
    /\ ((raisedSince /\ pc # "thrown") => Len(intercepted) >= 1)
    /\ (pc = "unmounted" => escaped)
    /\ providerFailed =>
           /\ intercepted = <<>>
           /\ ~raisedSince
           /\ curErr = NoError
           /\ ~hasError
           /\ view = NoView
           /\ log = <<>>
           /\ reports = <<>>

C17_Witness ==
    /\ providerFailed
    /\ cause # NoError
    /\ pc = "render"
    /\ view = NoView
    /\ ~hasError
    /\ intercepted = <<>>

\* C18: handleRetry is idempotent: applied to any state it yields hasError =
\* false, applied again it yields the same, applied to a Healthy state it
\* changes nothing; and a retry step emits no log entry and no report.
C18_HandleRetryIdempotent ==
    /\ [](LET s == [hasError |-> hasError]
          IN  /\ handleRetry(s) = [hasError |-> FALSE]
              /\ handleRetry(handleRetry(s)) = handleRetry(s)
              /\ (~hasError => handleRetry(s) = s))
    /\ [][HandleRetry => UNCHANGED <<log, reports, outcomes, steps>>]_vars

C18_Witness ==
    /\ Len(intercepted) = 2
    /\ Len(log) = 2
    /\ Len(reports) = 2
    /\ ~raisedSince
    /\ ~hasError
    /\ pc = "descend"

====
